---- MODULE Spec2Model ----
(***************************************************************************)
(* A model of rapids_dependency_file_generator.py: the pure helpers        *)
(* (dedupe, grid, should_use_specific_entry, get_requested_output_types,   *)
(* get_filename, get_output_dir, name_with_cuda_suffix,                    *)
(* make_dependency_file) as operators, and make_dependency_files as a      *)
(* state machine over the files x formats x combinations traversal and    *)
(* the final flush.                                                        *)
(*                                                                         *)
(* Representation.  A Python str that the code only compares is a TLA+     *)
(* string.  A str the code takes apart or builds (file names, paths, the   *)
(* project name, version values) is a sequence of one-character strings;   *)
(* StrChars gives the characters of the atomic strings that get formatted  *)
(* into such text.  A Python dict is the sequence of its items in          *)
(* insertion order, each item a record [k |-> key, v |-> value]; the keys  *)
(* of one dict are pairwise different.  A package specifier is a natural   *)
(* number: its rank in the lexicographic order of the specifier strings,   *)
(* so that sorted() is the numeric order.                                  *)
(***************************************************************************)
EXTENDS Integers, Sequences, FiniteSets, TLC

VARIABLES
    parsed_config,  \* the files of the parsed dependencies.yaml, in dict order
    to_stdout,      \* the to_stdout argument
    disk,           \* the file system: the sequence of [path, data] files
    results,        \* the results dict: the sequence of [path, data] items
    pc,             \* where the run (or the caller of a helper) stands
    fi,             \* index of the current file in parsed_config
    tups,           \* the (file_type, matrix_combo) pairs of the current file
    ti,             \* index of the current pair in tups
    wi,             \* index of the next item of results to flush
    err,            \* the exception that ended the run, or NoErr
    written,        \* the paths given to write_output so far, in order
    stdout,         \* what was written to sys.stdout, in order
    run,            \* 1 for the first generation run, 2 for the re-run, ...
    disk0,          \* the file system when the current run began
    cur_dependencies, \* the dependencies list of the combination resolved last
    arg,            \* the argument a helper is called with
    arg2,           \* its second argument
    ret,            \* the helper's result
    ret2            \* the result of the second call

vars == <<parsed_config, to_stdout, disk, results, pc, fi, tups, ti, wi, err,
          written, stdout, run, disk0, cur_dependencies, arg, arg2, ret, ret2>>

orch_vars == <<parsed_config, to_stdout, disk, results, fi, tups, ti, wi, err,
               written, stdout, run, disk0, cur_dependencies>>

helper_vars == <<arg, arg2, ret, ret2>>

----------------------------------------------------------------------------
(* Bounds of the model *)

\* the longest dependency list given to dedupe in DedupeSpec
MaxDeps == 3
\* package specifiers are 1..MaxPkg
MaxPkg == 3
\* the longest value list of an axis in GridSpec
MaxVals == 2
\* the longest 'output' list in OutputSpec
MaxOutputs == 3

----------------------------------------------------------------------------
(* Python values *)

\* Python's None; str(None) is "None" (see StrChars)
None == "<None>"

Range(s) == {s[i] : i \in DOMAIN s}

\* dict.get(key, default) on a dict given as its item sequence
get(d, key, default) ==
    IF \E i \in DOMAIN d : d[i].k = key
    THEN d[CHOOSE i \in DOMAIN d : d[i].k = key].v
    ELSE default

\* key in dict
has_key(d, key) == \E i \in DOMAIN d : d[i].k = key

\* sorted(set(...)) of package specifiers: ascending, each once
RECURSIVE sorted(_)
sorted(S) ==
    IF S = {} THEN <<>>
    ELSE LET m == CHOOSE x \in S : \A y \in S : x <= y
         IN  <<m>> \o sorted(S \ {m})

----------------------------------------------------------------------------
(* dedupe *)

\* an element of a dependency list: a plain specifier (a str) ...
Plain(p) == [isdict |-> FALSE, s |-> p, items |-> <<>>]
\* ... or a dict from extra-group names to specifier lists
Dict(items) == [isdict |-> TRUE, s |-> 0, items |-> items]

\* dict_deps[key].extend(values) without the sorted(set(...)) that follows
extend_unsorted(dict_deps, key, values) ==
    IF has_key(dict_deps, key)
    THEN [i \in DOMAIN dict_deps |->
            IF dict_deps[i].k = key
            THEN [k |-> key, v |-> dict_deps[i].v \o values]
            ELSE dict_deps[i]]
    ELSE Append(dict_deps, [k |-> key, v |-> values])

\* dict_deps[key].extend(values); dict_deps[key] = sorted(set(dict_deps[key]))
\* on a defaultdict(list): a new key is inserted last
extend_key(dict_deps, key, values) ==
    IF has_key(dict_deps, key)
    THEN [i \in DOMAIN dict_deps |->
            IF dict_deps[i].k = key
            THEN [k |-> key, v |-> sorted(Range(dict_deps[i].v) \cup Range(values))]
            ELSE dict_deps[i]]
    ELSE Append(dict_deps, [k |-> key, v |-> sorted(Range(values))])

\* for key, values in dep.items(): ...
RECURSIVE merge_items(_, _)
merge_items(dict_deps, items) ==
    IF items = <<>> THEN dict_deps
    ELSE merge_items(extend_key(dict_deps, Head(items).k, Head(items).v), Tail(items))

\* for dep in filter(lambda dep: isinstance(dep, dict), dependencies): ...
RECURSIVE merge_dicts(_, _)
merge_dicts(dict_deps, dependencies) ==
    IF dependencies = <<>> THEN dict_deps
    ELSE merge_dicts(IF Head(dependencies).isdict
                     THEN merge_items(dict_deps, Head(dependencies).items)
                     ELSE dict_deps,
                     Tail(dependencies))

\* sorted({dep for dep in dependencies if not isinstance(dep, dict)})
plain_sorted(dependencies) ==
    LET S == sorted({d.s : d \in {x \in Range(dependencies) : ~x.isdict}})
    IN  [i \in DOMAIN S |-> Plain(S[i])]

dedupe(dependencies) ==
    LET deduped == plain_sorted(dependencies)
        dict_deps == merge_dicts(<<>>, dependencies)
    IN  IF dict_deps # <<>> THEN Append(deduped, Dict(dict_deps)) ELSE deduped

----------------------------------------------------------------------------
(* grid *)

\* itertools.product(*lists): the last list varies fastest
RECURSIVE product(_)
product(lists) ==
    IF lists = <<>> THEN << <<>> >>
    ELSE LET h == Head(lists)
             rest == product(Tail(lists))
         IN  [n \in 1..(Len(h) * Len(rest)) |->
                <<h[((n - 1) \div Len(rest)) + 1]>> \o rest[((n - 1) % Len(rest)) + 1]]

\* grid over the set of each axis's values: a repeated value is taken once
grid_unique(gridspec) ==
    LET firsts(l) == SelectSeq([i \in DOMAIN l |->
                        IF \E j \in 1..(i - 1) : l[j] = l[i] THEN "<dup>" ELSE l[i]],
                        LAMBDA x : x # "<dup>")
        values == product([i \in DOMAIN gridspec |-> firsts(gridspec[i].v)])
    IN  [n \in DOMAIN values |->
            [i \in DOMAIN gridspec |-> [k |-> gridspec[i].k, v |-> values[n][i]]]]

\* for values in itertools.product(*gridspec.values()):
\*     yield dict(zip(gridspec.keys(), values))
grid(gridspec) ==
    LET values == product([i \in DOMAIN gridspec |-> gridspec[i].v])
    IN  [n \in DOMAIN values |->
            [i \in DOMAIN gridspec |-> [k |-> gridspec[i].k, v |-> values[n][i]]]]

----------------------------------------------------------------------------
(* should_use_specific_entry *)

\* all(matrix_combo.get(specific_key) == specific_value for ... in ....items())
should_use_specific_entry(matrix_combo, specific_entry_matrix) ==
    \A i \in DOMAIN specific_entry_matrix :
        get(matrix_combo, specific_entry_matrix[i].k, None) = specific_entry_matrix[i].v

----------------------------------------------------------------------------
(* get_requested_output_types *)

\* constants.OutputTypes: the members' values, in declaration order
OutputTypes == <<"conda", "requirements", "pyproject", "none">>

\* OUTPUT_ENUM_VALUES = [str(x) for x in OutputTypes]
OUTPUT_ENUM_VALUES == OutputTypes

\* NON_NONE_OUTPUT_ENUM_VALUES = [str(x) for x in OutputTypes if not x == OutputTypes.NONE]
NON_NONE_OUTPUT_ENUM_VALUES == SelectSeq(OutputTypes, LAMBDA x : x # "none")

\* the result of a call: a returned value, or the exception it raised
Return(v) == [exc |-> "", msg |-> "", val |-> v]
Raise(exc, msg) == [exc |-> exc, msg |-> msg, val |-> <<>>]

\* an 'output' value: one identifier (a str) or a list of identifiers
OutputStr(s) == [islist |-> FALSE, s |-> s, l |-> <<>>]
OutputList(l) == [islist |-> TRUE, s |-> "", l |-> l]

\* the messages of the two ValueErrors: a fixed text, and an f-string whose
\* fields (left unfilled here) are the enum's values
MsgNoneCombined == "'output: [none]' cannot be combined with any other values."
MsgOutputKey == "'output' key can only be {OUTPUT_ENUM_VALUES} or a list of the non-'{OutputTypes.NONE}' values."

\* get_requested_output_types without its 'output == [NONE]' case
get_requested_output_types_no_sentinel(output) ==
    LET out == IF output.islist THEN output.l ELSE <<output.s>>
    IN  IF Len(out) > 1 /\ "none" \in Range(out)
        THEN Raise("ValueError", MsgNoneCombined)
        ELSE IF \E i \in DOMAIN out : out[i] \notin Range(NON_NONE_OUTPUT_ENUM_VALUES)
        THEN Raise("ValueError", MsgOutputKey)
        ELSE Return(out)

get_requested_output_types(output) ==
    LET out == IF output.islist THEN output.l ELSE <<output.s>>
    IN  IF out = <<"none">>
        THEN Return(<<>>)
        ELSE IF Len(out) > 1 /\ "none" \in Range(out)
        THEN Raise("ValueError", MsgNoneCombined)
        ELSE IF \E i \in DOMAIN out : out[i] \notin Range(NON_NONE_OUTPUT_ENUM_VALUES)
        THEN Raise("ValueError", MsgOutputKey)
        ELSE Return(out)

----------------------------------------------------------------------------
(* the traversal order of one file *)

\* for file_type in file_types_to_generate:
\*     for matrix_combo in grid(file_config.get("matrix", {})):
file_tuples(file_types_to_generate, file_config) ==
    LET combos == grid(get(file_config, "matrix", <<>>))
    IN  [n \in 1..(Len(file_types_to_generate) * Len(combos)) |->
            [file_type |-> file_types_to_generate[((n - 1) \div Len(combos)) + 1],
             matrix_combo |-> combos[((n - 1) % Len(combos)) + 1]]]

----------------------------------------------------------------------------
(* Text *)

\* the characters of the atomic strings that are formatted into file names
StrChars ==
    ("conda" :> <<"c", "o", "n", "d", "a">>)
    @@ ("requirements" :> <<"r", "e", "q", "u", "i", "r", "e", "m", "e", "n", "t", "s">>)
    @@ ("pyproject" :> <<"p", "y", "p", "r", "o", "j", "e", "c", "t">>)
    @@ ("cuda" :> <<"c", "u", "d", "a">>)
    @@ ("arch" :> <<"a", "r", "c", "h">>)
    @@ ("11.8" :> <<"1", "1", ".", "8">>)
    @@ ("12.0" :> <<"1", "2", ".", "0">>)
    @@ ("118" :> <<"1", "1", "8">>)
    @@ ("9.0" :> <<"9", ".", "0">>)
    @@ ("x86_64" :> <<"x", "8", "6", "_", "6", "4">>)
    @@ ("aarch64" :> <<"a", "a", "r", "c", "h", "6", "4">>)
    @@ ("a" :> <<"a">>) @@ ("b" :> <<"b">>) @@ ("c" :> <<"c">>) @@ ("d" :> <<"d">>)
    @@ ("-cu" :> <<"-", "c", "u">>)
    @@ (None :> <<"N", "o", "n", "e">>)

Digits == {"0", "1", "2", "3", "4", "5", "6", "7", "8", "9"}

\* sep.join(parts)
RECURSIVE join(_, _)
join(sep, parts) ==
    IF parts = <<>> THEN <<>>
    ELSE IF Len(parts) = 1 THEN parts[1]
    ELSE parts[1] \o sep \o join(sep, Tail(parts))

\* text.replace(ch, "")
remove_char(text, ch) == SelectSeq(text, LAMBDA x : x # ch)

\* the index of the last ch in text, 0 when there is none
last_index(text, ch) ==
    IF \E i \in DOMAIN text : text[i] = ch
    THEN CHOOSE i \in DOMAIN text : text[i] = ch /\ \A j \in DOMAIN text : text[j] = ch => j <= i
    ELSE 0

\* the index of the first ch in text, 0 when there is none
first_index(text, ch) ==
    IF \E i \in DOMAIN text : text[i] = ch
    THEN CHOOSE i \in DOMAIN text : text[i] = ch /\ \A j \in DOMAIN text : text[j] = ch => i <= j
    ELSE 0

\* os.path.splitext(name)[0]: the name up to its last dot (a name is no path
\* here, and a dot that only leads the name starts no extension)
splitext_root(name) ==
    LET i == last_index(name, ".")
    IN  IF i > 1 /\ \E j \in 1..(i - 1) : name[j] # "." THEN SubSeq(name, 1, i - 1) ELSE name

\* os.path.dirname(path)
dirname(path) ==
    LET i == last_index(path, "/")
    IN  IF i = 0 THEN <<>> ELSE IF i = 1 THEN <<"/">> ELSE SubSeq(path, 1, i - 1)

\* os.path.join(a, b)
os_path_join(a, b) ==
    IF b # <<>> /\ b[1] = "/" THEN b
    ELSE IF a = <<>> \/ a[Len(a)] = "/" THEN a \o b
    ELSE a \o <<"/">> \o b

----------------------------------------------------------------------------
(* get_filename, get_output_dir *)

\* f"{k}-{v}" for k, v in matrix_combo.items()
combo_parts(matrix_combo) ==
    [i \in DOMAIN matrix_combo |->
        StrChars[matrix_combo[i].k] \o <<"-">> \o StrChars[matrix_combo[i].v]]

get_filename(file_type, file_key, matrix_combo) ==
    LET suffix0 == join(<<"_">>, combo_parts(matrix_combo))
        file_ext == IF file_type = "conda" THEN <<".", "y", "a", "m", "l">>
                    ELSE IF file_type = "requirements" THEN <<".", "t", "x", "t">>
                    ELSE IF file_type = "pyproject" THEN <<".", "t", "o", "m", "l">>
                    ELSE <<>>
        file_type_prefix == IF file_type = "requirements" THEN StrChars["requirements"] ELSE <<>>
        file_name_prefix == IF file_type = "pyproject" THEN StrChars["pyproject"]
                            ELSE StrChars[file_key]
        suffix == IF file_type = "pyproject" THEN <<>> ELSE suffix0
        filename == remove_char(
                        join(<<"_">>, SelectSeq(<<file_type_prefix, file_name_prefix, suffix>>,
                                                LAMBDA x : x # <<>>)),
                        ".")
    IN  filename \o file_ext

\* constants.default_conda_dir, default_requirements_dir, default_pyproject_dir
default_conda_dir == <<"c", "o", "n", "d", "a", "/", "e", "n", "v", "s">>
default_requirements_dir == <<"p", "y", "t", "h", "o", "n">>
default_pyproject_dir == <<"p", "y", "t", "h", "o", "n">>

\* the config_file_path argument: dependencies.yaml in the working directory
config_file_path == <<"d", "e", "p", "s", ".", "y", "a", "m", "l">>

get_output_dir(file_type, config_path, file_config) ==
    LET path == <<dirname(config_path)>>
        dir == IF file_type = "conda"
                   THEN <<get(file_config, "conda_dir", default_conda_dir)>>
               ELSE IF file_type = "requirements"
                   THEN <<get(file_config, "requirements_dir", default_requirements_dir)>>
               ELSE IF file_type = "pyproject"
                   THEN <<get(file_config, "pyproject_dir", default_pyproject_dir)>>
               ELSE <<>>
    IN  IF dir = <<>> THEN path[1] ELSE os_path_join(path[1], dir[1])

----------------------------------------------------------------------------
(* name_with_cuda_suffix *)

\* re.search("(" + cuda_suffix + "[0-9]{2})$", name): the start of the match
\* (the index before it), or -1 when the name does not end in the suffix
\* followed by exactly two digits
suffix_match_start(name, cuda_suffix) ==
    LET n == Len(name)
        k == Len(cuda_suffix)
    IN  IF /\ n >= k + 2
           /\ name[n] \in Digits
           /\ name[n - 1] \in Digits
           /\ SubSeq(name, n - k - 1, n - 2) = cuda_suffix
        THEN n - k - 2
        ELSE -1

\* cuda_version.split(".")[0]
major_version(cuda_version) ==
    LET i == first_index(cuda_version, ".")
    IN  IF i = 0 THEN cuda_version ELSE SubSeq(cuda_version, 1, i - 1)

\* cuda_version is the matrix value (None when the combination has no cuda)
name_with_cuda_suffix(name, cuda_version, cuda_suffix) ==
    LET suff == suffix_match_start(name, cuda_suffix)
        stripped == SubSeq(name, 1, IF suff >= 0 THEN suff ELSE Len(name))
    IN  IF cuda_version # None
        THEN stripped \o cuda_suffix \o major_version(StrChars[cuda_version])
        ELSE stripped

----------------------------------------------------------------------------
(* File contents *)

\* one line of text: a "# ..." comment (n = 1: the HEADER line; n = 2: the
\* "To make changes, edit <relpath> ..." line, rel standing for the relative
\* path from the directory rel to the config file; n >= 3: another comment), a
\* line of a requirements file (n the specifier, 0 for an empty line), or the
\* n-th line of the body of a TOML document
Comment(n, rel) == [t |-> "comment", n |-> n, rel |-> rel]
ReqLine(p) == [t |-> "req", n |-> p, rel |-> <<>>]
TomlLine(n) == [t |-> "toml", n |-> n, rel |-> <<>>]

\* the data of a conda environment: name, channels, dependencies
YamlData(name, channels, dependencies) ==
    [name |-> name, channels |-> channels, dependencies |-> dependencies]

\* a str: its lines, followed by the YAML documents dumped into it
StrData(lines, yaml) ==
    [kind |-> "str", lines |-> lines, yaml |-> yaml, name |-> <<>>, tables |-> <<>>,
     nl |-> 0]

\* a tomlkit document: the comment lines at the head of its body, the
\* project.name field, the dependency arrays set in it (a dict from
\* [table, key] to the array) and the blank lines added before new tables
TomlData(lines, name, tables, nl) ==
    [kind |-> "toml", lines |-> lines, yaml |-> <<>>, name |-> name, tables |-> tables,
     nl |-> nl]

\* d[key] = value on a dict kept as a list of pairs: every assignment adds a
\* pair, also for a key the dict holds
set_append(d, key, value) == Append(d, [k |-> key, v |-> value])

\* d[key] = value on a dict given as its item sequence
set(d, key, value) ==
    IF has_key(d, key)
    THEN [i \in DOMAIN d |-> IF d[i].k = key THEN [k |-> key, v |-> value] ELSE d[i]]
    ELSE Append(d, [k |-> key, v |-> value])

\* constants.default_channels
default_channels == <<"rapidsai", "conda-forge">>

----------------------------------------------------------------------------
(* make_dependency_file *)

\* "\n".join(dependencies) + "\n", as lines
joined_lines(dependencies) ==
    IF dependencies = <<>> THEN <<ReqLine(0)>>
    ELSE [i \in DOMAIN dependencies |-> ReqLine(dependencies[i].s)]

\* extras.get("key", "requires" if extras["table"] == "build-system" else "dependencies")
toml_key(extras) ==
    get(extras, "key",
        IF get(extras, "table", "") = "build-system" THEN "requires" ELSE "dependencies")

\* the pyproject branch: table[key] = toml_deps, the table created (after a
\* blank line) when the document does not hold it yet; the document holds the
\* table "project", where its name is
make_pyproject(file_contents, dependencies, extras) ==
    LET at == [table |-> get(extras, "table", ""), key |-> toml_key(extras)]
        exists == \/ at.table = "project"
                  \/ \E i \in DOMAIN file_contents.tables :
                         file_contents.tables[i].k.table = at.table
    IN  TomlData(file_contents.lines, file_contents.name,
                 set(file_contents.tables, at, dependencies),
                 IF exists THEN file_contents.nl ELSE file_contents.nl + 1)

make_dependency_file(file_contents, file_type, name, config_file, output_dir, conda_channels, dependencies, extras) ==
    IF file_type = "conda"
    THEN LET data == IF file_contents.yaml = <<>> THEN YamlData(<<>>, <<>>, <<>>)
                     ELSE file_contents.yaml[1]
         IN  Return(StrData(<<>>, <<YamlData(splitext_root(name),
                                             data.channels \o conda_channels,
                                             data.dependencies \o dependencies)>>))
    ELSE IF file_type = "requirements"
    THEN IF \E i \in DOMAIN dependencies : dependencies[i].isdict
         THEN [exc |-> "TypeError", msg |-> "sequence item: expected str instance, dict found",
               val |-> file_contents]
         ELSE Return(StrData(file_contents.lines \o joined_lines(dependencies),
                             file_contents.yaml))
    ELSE IF file_type = "pyproject"
    THEN IF ~has_key(extras, "table")
         THEN [exc |-> "KeyError", msg |-> "table", val |-> file_contents]
         ELSE Return(make_pyproject(file_contents, dependencies, extras))
    ELSE Return(file_contents)

----------------------------------------------------------------------------
(* write_output *)

\* HEADER and the "To make changes" line, for a file in output_dir
header_lines(path) == <<Comment(1, <<>>), Comment(2, dirname(path))>>

\* data.as_string().split("\n")[0:2]: the first two lines of a document, whose
\* body follows the comments at its head
first_2_lines(data) == SubSeq(data.lines \o <<TomlLine(1), TomlLine(2)>>, 1, 2)

\* tomlkit.comment(line[2:]): the comment whose text is the line without its
\* leading "# "
as_comment(line) == Comment(line.n, line.rel)

\* what write_output(data, path, f) writes to f
write_output(data, path) ==
    IF data.kind = "toml"
    THEN IF first_2_lines(data) # header_lines(path)
         THEN TomlData([i \in 1..2 |-> as_comment(header_lines(path)[i])] \o data.lines,
                       data.name, data.tables, data.nl)
         ELSE data
    ELSE StrData(header_lines(path) \o data.lines, data.yaml)

----------------------------------------------------------------------------
(* The dependency catalog: parsed_config["dependencies"] *)

AllTypes == <<"conda", "requirements", "pyproject">>

\* a sub-rule of a specific rule: a dict with an optional "matrix" and an
\* optional "packages"
SubRule(matrix, packages) == <<[k |-> "matrix", v |-> matrix], [k |-> "packages", v |-> packages]>>
\* a sub-rule that declares no "matrix" key
NoMatrix(packages) == <<[k |-> "packages", v |-> packages]>>

Plains(l) == [i \in DOMAIN l |-> Plain(l[i])]

Cuda(v) == <<[k |-> "cuda", v |-> v]>>
Arch(v) == <<[k |-> "arch", v |-> v]>>

Entry(common, specific) == [common |-> common, specific |-> specific]
Common(output_types, packages) == [output_types |-> output_types, packages |-> packages]
Specific(output_types, matrices) == [output_types |-> output_types, matrices |-> matrices]

Dependencies ==
    <<[k |-> "common",
       v |-> Entry(<<Common(AllTypes, Plains(<<2, 1, 2>>))>>, <<>>)],
      [k |-> "cuda",
       v |-> Entry(<<>>,
                   <<Specific(AllTypes,
                              <<SubRule(Cuda("11.8"), Plains(<<3>>)),
                                SubRule(Cuda("9.0"), Plains(<<1, 3>>)),
                                NoMatrix(Plains(<<2>>))>>)>>)],
      [k |-> "fallback_first",
       v |-> Entry(<<>>,
                   <<Specific(AllTypes,
                              <<SubRule(<<>>, Plains(<<3>>)),
                                SubRule(Arch("x86_64"), Plains(<<1>>))>>)>>)],
      [k |-> "ambiguous",
       v |-> Entry(<<>>,
                   <<Specific(AllTypes,
                              <<SubRule(Cuda("11.8"), Plains(<<1>>)),
                                NoMatrix(Plains(<<2>>)),
                                SubRule(Arch("x86_64"), Plains(<<3>>))>>)>>)],
      [k |-> "strict",
       v |-> Entry(<<Common(<<"conda">>, Plains(<<1>>))>>,
                   <<Specific(<<"requirements", "pyproject">>,
                              <<SubRule(Cuda("11.8"), Plains(<<3>>))>>)>>)],
      [k |-> "null_cond",
       v |-> Entry(<<>>,
                   <<Specific(AllTypes,
                              <<SubRule(Cuda(None), Plains(<<1>>)),
                                SubRule(Arch("x86_64"), Plains(<<3>>)),
                                NoMatrix(Plains(<<2>>))>>)>>)],
      [k |-> "two_rules",
       v |-> Entry(<<>>,
                   <<Specific(AllTypes,
                              <<SubRule(Cuda("11.8"), Plains(<<1>>)), NoMatrix(<<>>)>>),
                     Specific(AllTypes,
                              <<NoMatrix(Plains(<<3>>)), NoMatrix(<<>>),
                                SubRule(Arch("x86_64"), Plains(<<2>>))>>)>>)],
      [k |-> "pip",
       v |-> Entry(<<Common(<<"conda", "requirements">>,
                            <<Plain(1), Dict(<<[k |-> "pip", v |-> <<3, 2>>]>>)>>),
                     Common(<<"conda">>,
                            <<Dict(<<[k |-> "pip", v |-> <<1, 3>>]>>)>>)>>,
                   <<>>)]>>

\* the cuda_suffix argument
cuda_suffix == StrChars["-cu"]

\* channels = parsed_config.get("channels", default_channels) or default_channels,
\* for a config that lists no channels
channels == default_channels

----------------------------------------------------------------------------
(* The resolver: lines 389-445 of make_dependency_files *)

\* not specific_matrices_entry.get("matrix", None)
no_matrix(specific_matrices_entry) ==
    ~has_key(specific_matrices_entry, "matrix")
    \/ get(specific_matrices_entry, "matrix", <<>>) = <<>>

\* specific_matrices_entry.get("packages", []) or []
packages_of(specific_matrices_entry) == get(specific_matrices_entry, "packages", <<>>)

\* the f-strings of the two ValueErrors of the resolver, their fields unfilled
MsgMultiple == "Found multiple matches for matrix {matrix_combo}"
MsgNoMatch == "No matching matrix found in '{include}' for: {matrix_combo}"

\* the state of the scan of one specific rule
ScanStart(dependencies) ==
    [found |-> FALSE, fallback_entry |-> <<>>, dependencies |-> dependencies, exc |-> ""]

\* the scan with a second match taken like the first: no error raised
RECURSIVE scan_matrices_no_raise(_, _, _)
scan_matrices_no_raise(matrices, matrix_combo, st) ==
    IF matrices = <<>> THEN st
    ELSE LET e == Head(matrices)
         IN  scan_matrices_no_raise(Tail(matrices), matrix_combo,
                IF no_matrix(e) THEN [st EXCEPT !.fallback_entry = <<e>>]
                ELSE IF should_use_specific_entry(matrix_combo, get(e, "matrix", <<>>))
                THEN [st EXCEPT !.found = TRUE,
                                !.dependencies = @ \o packages_of(e)]
                ELSE st)

\* for specific_matrices_entry in specific_entry["matrices"]: ...
\* (the loop ends at the first exception)
RECURSIVE scan_matrices(_, _, _)
scan_matrices(matrices, matrix_combo, st) ==
    IF matrices = <<>> \/ st.exc # "" THEN st
    ELSE LET e == Head(matrices)
         IN  scan_matrices(Tail(matrices), matrix_combo,
                IF no_matrix(e) THEN [st EXCEPT !.fallback_entry = <<e>>]
                ELSE IF should_use_specific_entry(matrix_combo, get(e, "matrix", <<>>))
                THEN IF st.found
                     THEN [st EXCEPT !.exc = "ValueError"]
                     ELSE [st EXCEPT !.found = TRUE,
                                     !.dependencies = @ \o packages_of(e)]
                ELSE st)

\* what the resolver has so far: the dependencies list, and the exception
\* that ended it, with the include the loop stood at when it was raised
Collected(dependencies) ==
    [exc |-> "", msg |-> "", include |-> "", dependencies |-> dependencies]

\* one specific rule: lines 403-445
resolve_specific(specific_entry, file_type, matrix_combo, include, acc) ==
    IF file_type \notin Range(specific_entry.output_types) THEN acc
    ELSE LET st == scan_matrices(specific_entry.matrices, matrix_combo,
                                 ScanStart(acc.dependencies))
         IN  IF st.exc # ""
             THEN [exc |-> "ValueError", msg |-> MsgMultiple,
                   include |-> include, dependencies |-> st.dependencies]
             ELSE IF ~st.found
             THEN IF st.fallback_entry # <<>>
                  THEN Collected(st.dependencies \o packages_of(st.fallback_entry[1]))
                  ELSE [exc |-> "ValueError",
                        msg |-> MsgNoMatch,
                        include |-> include, dependencies |-> st.dependencies]
             ELSE Collected(st.dependencies)

\* for specific_entry in dependency_entry.get("specific", []): ...
RECURSIVE resolve_specifics(_, _, _, _, _)
resolve_specifics(specific, file_type, matrix_combo, include, acc) ==
    IF specific = <<>> \/ acc.exc # "" THEN acc
    ELSE resolve_specifics(Tail(specific), file_type, matrix_combo, include,
            resolve_specific(Head(specific), file_type, matrix_combo, include, acc))

\* for common_entry in dependency_entry.get("common", []): ...
RECURSIVE resolve_commons(_, _, _)
resolve_commons(common, file_type, dependencies) ==
    IF common = <<>> THEN dependencies
    ELSE resolve_commons(Tail(common), file_type,
            IF file_type \notin Range(Head(common).output_types) THEN dependencies
            ELSE dependencies \o Head(common).packages)

\* for include in includes: ...
RECURSIVE resolve_includes(_, _, _, _)
resolve_includes(includes, file_type, matrix_combo, acc) ==
    IF includes = <<>> \/ acc.exc # "" THEN acc
    ELSE LET include == Head(includes)
             dependency_entry == get(Dependencies, include, Entry(<<>>, <<>>))
         IN  resolve_includes(Tail(includes), file_type, matrix_combo,
                resolve_specifics(dependency_entry.specific, file_type, matrix_combo,
                    include,
                    Collected(resolve_commons(dependency_entry.common, file_type,
                                              acc.dependencies))))

\* dependencies = []; for include in includes: ...
resolve(includes, file_type, matrix_combo) ==
    resolve_includes(includes, file_type, matrix_combo, Collected(<<>>))

----------------------------------------------------------------------------
(* Accumulation into results: lines 447-479 of make_dependency_files *)

\* the destination of a (file, format, combination)
output_path(file_key, file_config, file_type, matrix_combo) ==
    os_path_join(get_output_dir(file_type, config_file_path, file_config),
                 get_filename(file_type, file_key, matrix_combo))

\* tomlkit.load of the document at path, its project.name rewritten
open_pyproject(fs, path, matrix_combo) ==
    LET doc == get(fs, path, TomlData(<<>>, <<>>, <<>>, 0))
    IN  TomlData(doc.lines,
                 name_with_cuda_suffix(doc.name, get(matrix_combo, "cuda", None), cuda_suffix),
                 doc.tables, doc.nl)

\* the results dict after the combination's dependencies are put into it, or
\* the exception raised on the way
accumulate(res, fs, file_key, file_config, file_type, matrix_combo, deps) ==
    LET full_file_name == get_filename(file_type, file_key, matrix_combo)
        output_dir == get_output_dir(file_type, config_file_path, file_config)
        output_file_path == os_path_join(output_dir, full_file_name)
        first == ~has_key(res, output_file_path)
        file_contents ==
            IF ~first THEN get(res, output_file_path, StrData(<<>>, <<>>))
            ELSE IF file_type # "pyproject" THEN StrData(<<>>, <<>>)
            ELSE open_pyproject(fs, output_file_path, matrix_combo)
        made == make_dependency_file(file_contents, file_type, full_file_name,
                                     config_file_path, output_dir, channels, dedupe(deps),
                                     get(file_config, "extras", <<>>))
    IN  IF first /\ file_type = "pyproject" /\ ~has_key(fs, output_file_path)
        THEN [exc |-> "FileNotFoundError", msg |-> "", results |-> res]
        ELSE [exc |-> made.exc, msg |-> made.msg,
              results |-> set(res, output_file_path, made.val)]

----------------------------------------------------------------------------
(* make_dependency_files *)

\* the names between braces in the f-string of a message, of the three values
\* that tell where in dependencies.yaml the run stands
placeholders(msg) ==
    {n \in {"include", "matrix_combo", "output"} :
        \/ n = "include" /\ msg \in {MsgNoMatch}
        \/ n = "matrix_combo" /\ msg \in {MsgMultiple, MsgNoMatch}
        \/ n = "output" /\ msg \in {}}

\* the exception raised with the message msg where include, matrix_combo and
\* the file's 'output' have these values: a value the message holds is kept
\* as <<value>>, one it does not hold is <<>>
exception(exc, msg, include, matrix_combo, output) ==
    [exc |-> exc, msg |-> msg,
     include |-> IF "include" \in placeholders(msg) THEN <<include>> ELSE <<>>,
     matrix_combo |-> IF "matrix_combo" \in placeholders(msg) THEN <<matrix_combo>> ELSE <<>>,
     output |-> IF "output" \in placeholders(msg) THEN <<output>> ELSE <<>>]

NoErr == [exc |-> "", msg |-> "", include |-> <<>>, matrix_combo |-> <<>>, output |-> <<>>]

\* an exception swallowed: the run goes on to write what it has
raise_pc_flush == "flush"

\* where a raised exception takes the run: out of make_dependency_files
raise_pc == "error"

\* top of `for file_key, file_config in files.items()`: lines 380-385
BeginFile ==
    /\ pc = "file"
    /\ fi <= Len(parsed_config)
    /\ LET file_config == parsed_config[fi].v
           t == get_requested_output_types(get(file_config, "output", OutputList(<<>>)))
       IN  IF t.exc # ""
           THEN /\ pc' = raise_pc
                /\ err' = exception(t.exc, t.msg, "", <<>>,
                                    get(file_config, "output", OutputList(<<>>)))
                /\ UNCHANGED <<tups, ti>>
           ELSE /\ pc' = "combo"
                /\ tups' = file_tuples(t.val, file_config)
                /\ ti' = 1
                /\ UNCHANGED err
    /\ UNCHANGED <<parsed_config, to_stdout, disk, results, fi, wi, written, stdout, run,
                   disk0, cur_dependencies, helper_vars>>

\* the body of `for matrix_combo in grid(...)`: lines 389-479
ResolveCombo ==
    /\ pc = "combo"
    /\ ti <= Len(tups)
    /\ LET file_key == parsed_config[fi].k
           file_config == parsed_config[fi].v
           file_type == tups[ti].file_type
           matrix_combo == tups[ti].matrix_combo
           r == resolve(get(file_config, "includes", <<>>), file_type, matrix_combo)
           a == accumulate(results, disk, file_key, file_config, file_type, matrix_combo,
                           r.dependencies)
       IN  /\ cur_dependencies' = r.dependencies
           /\ IF r.exc # ""
              THEN /\ pc' = raise_pc
                   /\ err' = exception(r.exc, r.msg, r.include, matrix_combo,
                                       get(file_config, "output", OutputList(<<>>)))
                   /\ UNCHANGED <<results, ti>>
              ELSE IF a.exc # ""
              THEN /\ pc' = raise_pc
                   /\ err' = exception(a.exc, a.msg, "", matrix_combo,
                                       get(file_config, "output", OutputList(<<>>)))
                   /\ results' = a.results
                   /\ UNCHANGED ti
              ELSE /\ results' = a.results
                   /\ ti' = ti + 1
                   /\ UNCHANGED <<pc, err>>
    /\ UNCHANGED <<parsed_config, to_stdout, disk, fi, tups, wi, written, stdout, run,
                   disk0, helper_vars>>

\* the loops over the file's formats and combinations are exhausted
EndFile ==
    /\ pc = "combo"
    /\ ti > Len(tups)
    /\ fi' = fi + 1
    /\ pc' = "file"
    /\ UNCHANGED <<parsed_config, to_stdout, disk, results, tups, ti, wi, err, written,
                   stdout, run, disk0, cur_dependencies, helper_vars>>

\* the loop over the files is exhausted: on to `for path, data in results.items()`
EndTraversal ==
    /\ pc = "file"
    /\ fi > Len(parsed_config)
    /\ pc' = "flush"
    /\ wi' = 1
    /\ UNCHANGED <<parsed_config, to_stdout, disk, results, fi, tups, ti, err, written,
                   stdout, run, disk0, cur_dependencies, helper_vars>>

\* one round of `for path, data in results.items()`: lines 504-509
Flush ==
    /\ pc = "flush"
    /\ wi <= Len(results)
    /\ LET path == results[wi].k
           out == write_output(results[wi].v, path)
       IN  /\ written' = Append(written, path)
           /\ IF to_stdout
              THEN stdout' = Append(stdout, out) /\ UNCHANGED disk
              ELSE disk' = set(disk, path, out) /\ UNCHANGED stdout
    /\ wi' = wi + 1
    /\ UNCHANGED <<parsed_config, to_stdout, results, pc, fi, tups, ti, err, run, disk0,
                   cur_dependencies, helper_vars>>

\* make_dependency_files returns
Finish ==
    /\ pc = "flush"
    /\ wi > Len(results)
    /\ pc' = "done"
    /\ UNCHANGED <<parsed_config, to_stdout, disk, results, fi, tups, ti, wi, err, written,
                   stdout, run, disk0, cur_dependencies, helper_vars>>

\* generation runs up to MaxRuns times on the same configuration
MaxRuns == 2

\* make_dependency_files is called again with the same arguments
Rerun ==
    /\ pc = "done"
    /\ run < MaxRuns
    /\ run' = run + 1
    /\ disk0' = disk
    /\ results' = <<>>
    /\ pc' = "file"
    /\ fi' = 1
    /\ tups' = <<>>
    /\ ti' = 1
    /\ wi' = 1
    /\ written' = <<>>
    /\ stdout' = <<>>
    /\ cur_dependencies' = <<>>
    /\ UNCHANGED <<parsed_config, to_stdout, disk, err, helper_vars>>

Next == BeginFile \/ ResolveCombo \/ EndFile \/ EndTraversal \/ Flush \/ Finish \/ Rerun

----------------------------------------------------------------------------
(* The configurations make_dependency_files is run on *)

\* the most files of a configuration
MaxFiles == 2

\* a file_config: "includes", "output", then the optional keys
FileConfig(includes, output, more) ==
    <<[k |-> "includes", v |-> includes], [k |-> "output", v |-> output]>> \o more

Matrix(gridspec) == <<[k |-> "matrix", v |-> gridspec]>>
Axis(name, values) == [k |-> name, v |-> values]
Extras(table) == <<[k |-> "extras", v |-> <<[k |-> "table", v |-> table]>>]>>
ExtrasKey(table, key) ==
    <<[k |-> "extras", v |-> <<[k |-> "table", v |-> table], [k |-> "key", v |-> key]>>]>>

FileConfigs ==
    {   \* one format, no matrix
        FileConfig(<<"common">>, OutputStr("requirements"), <<>>),
        \* two formats; the two cuda values give one file name ("11.8" loses its dot)
        FileConfig(<<"common", "cuda">>, OutputList(<<"conda", "requirements">>),
                   Matrix(<<Axis("cuda", <<"11.8", "118">>)>>)),
        FileConfig(<<"common", "cuda">>, OutputList(<<"conda", "requirements">>),
                   Matrix(<<Axis("cuda", <<"118", "11.8">>)>>)),
        \* pyproject.toml, edited in place
        FileConfig(<<"common", "cuda">>, OutputStr("pyproject"),
                   Matrix(<<Axis("cuda", <<"11.8">>)>>) \o Extras("project")),
        FileConfig(<<"cuda">>, OutputList(<<"pyproject">>),
                   Matrix(<<Axis("cuda", <<"9.0", "11.8">>)>>) \o Extras("build-system")),
        FileConfig(<<"common">>, OutputStr("pyproject"),
                   ExtrasKey("project", "optional")),
        \* a rule with two matching sub-rules for cuda 11.8 on x86_64
        FileConfig(<<"common", "ambiguous">>, OutputStr("conda"),
                   Matrix(<<Axis("cuda", <<"12.0", "11.8">>), Axis("arch", <<"x86_64">>)>>)),
        \* a rule without fallback that has nothing for cuda 12.0
        FileConfig(<<"strict", "two_rules">>, OutputList(<<"conda", "requirements">>),
                   Matrix(<<Axis("cuda", <<"11.8", "12.0">>)>>)),
        \* a condition on an axis the file's matrix does not have
        FileConfig(<<"null_cond", "fallback_first">>, OutputStr("conda"),
                   Matrix(<<Axis("arch", <<"aarch64", "x86_64">>)>>)),
        \* one match in each of two rules
        FileConfig(<<"two_rules">>, OutputStr("requirements"),
                   Matrix(<<Axis("cuda", <<"11.8">>),
                            Axis("arch", <<"x86_64", "aarch64">>)>>)),
        \* the 'output' requests that name no format, or name it wrongly
        FileConfig(<<"common">>, OutputStr("none"), <<>>),
        FileConfig(<<"common">>, OutputList(<<"none">>),
                   Matrix(<<Axis("cuda", <<"11.8">>)>>)),
        FileConfig(<<"common">>, OutputList(<<"none", "requirements">>), <<>>),
        FileConfig(<<"common">>, OutputList(<<"conda", "bogus">>), <<>>),
        \* an extra group: fine in a conda file, no str for a requirements file
        FileConfig(<<"pip", "common">>, OutputStr("conda"), <<>>),
        FileConfig(<<"pip">>, OutputStr("requirements"), <<>>),
        \* an axis without values, and a directory of its own
        FileConfig(<<"cuda">>, OutputStr("requirements"),
                   Matrix(<<Axis("cuda", <<>>)>>)),
        FileConfig(<<"cuda">>, OutputStr("requirements"),
                   Matrix(<<Axis("cuda", <<"12.0">>)>>)
                   \o <<[k |-> "requirements_dir", v |-> <<"r">>]>>)
    }

\* the keys of the files dict, in its order
FileKeys == <<"a", "b", "c", "d">>

\* the files dicts of 1..MaxFiles files
Configs ==
    UNION {{[i \in 1..n |-> [k |-> FileKeys[i], v |-> f[i]]] : f \in [1..n -> FileConfigs]}
           : n \in 1..MaxFiles}

\* the hand-written pyproject.toml: no header yet, project.name "pkg"
InitialDisk ==
    <<[k |-> os_path_join(default_pyproject_dir,
                          StrChars["pyproject"] \o <<".", "t", "o", "m", "l">>),
       v |-> TomlData(<<>>, <<"p", "k", "g">>, <<>>, 0)]>>

Init ==
    /\ parsed_config \in Configs
    /\ to_stdout \in BOOLEAN
    /\ disk = InitialDisk
    /\ disk0 = InitialDisk
    /\ results = <<>>
    /\ pc = "file"
    /\ fi = 1
    /\ tups = <<>>
    /\ ti = 1
    /\ wi = 1
    /\ err = NoErr
    /\ written = <<>>
    /\ stdout = <<>>
    /\ run = 1
    /\ cur_dependencies = <<>>
    /\ arg = <<>> /\ arg2 = <<>> /\ ret = <<>> /\ ret2 = <<>>

Spec == Init /\ [][Next]_vars

----------------------------------------------------------------------------
(* The helpers on their own: each specification draws the arguments of one *)
(* helper from a bounded set and calls it.                                 *)

\* the variables of make_dependency_files, unused while a helper is called alone
OrchIdle ==
    /\ parsed_config = <<>>
    /\ to_stdout = FALSE
    /\ disk = <<>>
    /\ results = <<>>
    /\ fi = 0
    /\ tups = <<>>
    /\ ti = 0
    /\ wi = 1
    /\ err = [exc |-> "", msg |-> "", include |-> "", matrix_combo |-> <<>>]
    /\ written = <<>>
    /\ stdout = <<>>
    /\ run = 0
    /\ disk0 = <<>>
    /\ cur_dependencies = <<>>

\* sequences over S of length 0..n
SeqsUpTo(S, n) == UNION {[1..m -> S] : m \in 0..n}

Pkgs == 1..MaxPkg

\* the dependency-list elements given to dedupe
DepElements ==
    {Plain(p) : p \in Pkgs}
    \cup {Dict(<<[k |-> "pip", v |-> l]>>) : l \in {<<>>, <<1>>, <<2, 1>>, <<3, 3>>}}
    \cup {Dict(<<[k |-> "extra", v |-> <<2>>]>>),
          Dict(<<[k |-> "extra", v |-> <<1>>], [k |-> "pip", v |-> <<3, 1>>]>>),
          Dict(<<>>)}

\* the permutations of 1..n
Perms(n) == {p \in [1..n -> 1..n] : \A i, j \in 1..n : p[i] = p[j] => i = j}

DedupeInit ==
    /\ pc = "dedupe_in"
    /\ arg \in SeqsUpTo(DepElements, MaxDeps)
    /\ arg2 = <<>> /\ ret = <<>> /\ ret2 = <<>>
    /\ OrchIdle

\* ret = dedupe(arg)
DedupeCall ==
    /\ pc = "dedupe_in"
    /\ ret' = dedupe(arg)
    /\ pc' = "dedupe_out"
    /\ UNCHANGED <<arg, arg2, ret2, orch_vars>>

\* ret2 = dedupe(ret): dedupe of a list that is already deduped
DedupeAgain ==
    /\ pc = "dedupe_out"
    /\ arg2' = ret
    /\ ret2' = dedupe(ret)
    /\ pc' = "dedupe_again"
    /\ UNCHANGED <<arg, ret, orch_vars>>

\* ret2 = dedupe(arg2), arg2 a permutation of arg
DedupePermuted ==
    /\ pc = "dedupe_out"
    /\ \E p \in Perms(Len(arg)) :
          /\ arg2' = [i \in DOMAIN arg |-> arg[p[i]]]
          /\ ret2' = dedupe(arg2')
    /\ pc' = "dedupe_permuted"
    /\ UNCHANGED <<arg, ret, orch_vars>>

DedupeNext == DedupeCall \/ DedupeAgain \/ DedupePermuted

DedupeSpec == DedupeInit /\ [][DedupeNext]_vars

\* dicts over the axes cuda and arch, the values drawn from C and A
AxisDicts(C, A) ==
    {<<>>}
    \cup {<<[k |-> "cuda", v |-> c]>> : c \in C}
    \cup {<<[k |-> "arch", v |-> a]>> : a \in A}
    \cup {<<[k |-> "cuda", v |-> c], [k |-> "arch", v |-> a]>> : c \in C, a \in A}
    \cup {<<[k |-> "arch", v |-> a], [k |-> "cuda", v |-> c]>> : c \in C, a \in A}

MatchInit ==
    /\ pc = "match_in"
    /\ arg \in AxisDicts({"11.8", "12.0", None}, {"x86_64", "aarch64", None})
    /\ arg2 \in AxisDicts({"11.8", "12.0", None}, {"x86_64", "aarch64", None})
    /\ ret = FALSE /\ ret2 = <<>>
    /\ OrchIdle

\* ret = should_use_specific_entry(arg, arg2)
MatchCall ==
    /\ pc = "match_in"
    /\ ret' = should_use_specific_entry(arg, arg2)
    /\ pc' = "match_out"
    /\ UNCHANGED <<arg, arg2, ret2, orch_vars>>

MatchSpec == MatchInit /\ [][MatchCall]_vars

GridInit ==
    /\ pc = "grid_in"
    /\ arg \in AxisDicts(SeqsUpTo({"11.8", "12.0"}, MaxVals),
                         SeqsUpTo({"x86_64", "aarch64"}, MaxVals))
    /\ arg2 \in {<<>>, <<"conda">>, <<"requirements", "conda">>}
    /\ ret = <<>> /\ ret2 = <<>>
    /\ OrchIdle

\* ret = list(grid(arg)); ret2 = the traversal of a file whose matrix is arg and
\* whose requested formats are arg2
GridCall ==
    /\ pc = "grid_in"
    /\ ret' = grid(arg)
    /\ ret2' = file_tuples(arg2, <<[k |-> "matrix", v |-> arg]>>)
    /\ pc' = "grid_out"
    /\ UNCHANGED <<arg, arg2, orch_vars>>

\* ret2 = the traversal of a file that declares no matrix
GridNoMatrix ==
    /\ pc = "grid_in"
    /\ arg = <<>>
    /\ ret' = grid(arg)
    /\ ret2' = file_tuples(arg2, <<>>)
    /\ pc' = "grid_nomatrix"
    /\ UNCHANGED <<arg, arg2, orch_vars>>

GridNext == GridCall \/ GridNoMatrix

GridSpec == GridInit /\ [][GridNext]_vars

OutputIds == {"conda", "requirements", "pyproject", "none", "bogus"}

OutputInit ==
    /\ pc = "output_in"
    /\ arg \in {OutputStr(s) : s \in OutputIds}
               \cup {OutputList(l) : l \in SeqsUpTo(OutputIds, MaxOutputs)}
    /\ arg2 = <<>> /\ ret = Return(<<>>) /\ ret2 = <<>>
    /\ OrchIdle

\* ret = get_requested_output_types(arg)
OutputCall ==
    /\ pc = "output_in"
    /\ ret' = get_requested_output_types(arg)
    /\ pc' = "output_out"
    /\ UNCHANGED <<arg, arg2, ret2, orch_vars>>

OutputSpec == OutputInit /\ [][OutputCall]_vars

----------------------------------------------------------------------------
(* C7: dedupe *)

\* the plain specifiers of a dependency list
PlainsOf(deps) == {d.s : d \in {x \in Range(deps) : ~x.isdict}}

\* the extra-group items (name, list) of a dependency list, every dict taken
ItemsOf(deps) == UNION {Range(d.items) : d \in {x \in Range(deps) : x.isdict}}

\* strictly ascending: sorted and without a repeated value
Ascending(l) == \A i, j \in DOMAIN l : i < j => l[i] < l[j]

\* y is the canonical form of x: plain specifiers unique and sorted, each
\* extra-group name once, its list unique, sorted and the union of the lists x
\* gives for that name
Canonical(x, y) ==
    LET plains == SelectSeq(y, LAMBDA d : ~d.isdict)
    IN  /\ Ascending([i \in DOMAIN plains |-> plains[i].s])
        /\ PlainsOf(y) = PlainsOf(x)
        /\ \A i, j \in DOMAIN y :
              (y[i].isdict /\ y[j].isdict /\ i # j) =>
                  \A a \in Range(y[i].items), b \in Range(y[j].items) : a.k # b.k
        /\ \A i \in DOMAIN y : y[i].isdict =>
              \A a, b \in DOMAIN y[i].items :
                  a # b => y[i].items[a].k # y[i].items[b].k
        /\ {it.k : it \in ItemsOf(y)} = {it.k : it \in ItemsOf(x)}
        /\ \A it \in ItemsOf(y) :
              /\ Ascending(it.v)
              /\ Range(it.v) = UNION {Range(o.v) : o \in {z \in ItemsOf(x) : z.k = it.k}}

\* Python's == on two dependency lists: element by element, two dicts being
\* equal when they hold the same items, in whatever order
PyEq(a, b) ==
    /\ Len(a) = Len(b)
    /\ \A i \in DOMAIN a :
          /\ a[i].isdict = b[i].isdict
          /\ ~a[i].isdict => a[i].s = b[i].s
          /\ a[i].isdict => Range(a[i].items) = Range(b[i].items)

\* C7: dedupe returns the canonical form of its input (plain specifiers unique
\* and sorted; each extra-group name at most once, with the sorted union of the
\* lists given for it); dedupe of a deduped list returns it unchanged; dedupe
\* of a permutation of a list equals dedupe of the list.
C7_DedupeCanonical ==
    /\ pc \in {"dedupe_out", "dedupe_again", "dedupe_permuted"} => Canonical(arg, ret)
    /\ pc = "dedupe_again" => ret2 = ret
    /\ pc = "dedupe_permuted" => PyEq(ret2, ret)

\* a permuted list with a repeated plain specifier and the group "pip" given
\* twice, whose dedupe builds its dict in another key order
C7_Witness ==
    /\ pc = "dedupe_permuted"
    /\ arg2 # arg
    /\ Len(arg) > Cardinality(Range(arg))
    /\ Cardinality({it \in ItemsOf(arg) : it.k = "pip"}) >= 2
    /\ ret2 # ret

----------------------------------------------------------------------------
(* C8: should_use_specific_entry *)

\* every key of cond is present in combo with an equal value
PresentAndEqual(combo, cond) ==
    \A i \in DOMAIN cond :
        /\ has_key(combo, cond[i].k)
        /\ get(combo, cond[i].k, None) = cond[i].v

\* C8: should_use_specific_entry(combo, cond) is true if and only if every key
\* of cond is present in combo with an equal value; so it is false when cond
\* names an axis combo lacks, whatever value cond gives it (None included).
C8_MatchIffPresentEqual ==
    pc = "match_out" => (ret <=> PresentAndEqual(arg, arg2))

----------------------------------------------------------------------------
(* C9: grid *)

\* n1 * ... * nk for the value lists of a gridspec
RECURSIVE SizeProduct(_)
SizeProduct(gridspec) ==
    IF gridspec = <<>> THEN 1
    ELSE Len(Head(gridspec).v) * SizeProduct(Tail(gridspec))

\* combo assigns every axis of gridspec one value of the axis's list
Assigns(gridspec, combo) ==
    /\ Len(combo) = Len(gridspec)
    /\ \A i \in DOMAIN gridspec :
          /\ combo[i].k = gridspec[i].k
          /\ combo[i].v \in Range(gridspec[i].v)

\* no axis of gridspec lists a value twice
NoRepeatedValue(gridspec) ==
    \A i \in DOMAIN gridspec :
        \A a, b \in DOMAIN gridspec[i].v : a # b => gridspec[i].v[a] # gridspec[i].v[b]

PairwiseDistinct(l) == \A a, b \in DOMAIN l : a # b => l[a] # l[b]

\* what C9 says of every gridspec but the distinctness
GridCountAndShape ==
    /\ pc \in {"grid_out", "grid_nomatrix"} =>
          /\ Len(ret) = SizeProduct(arg)
          /\ \A n \in DOMAIN ret : Assigns(arg, ret[n])
          /\ arg = <<>> => ret = << <<>> >>
    /\ pc = "grid_nomatrix" =>
          /\ Len(ret2) = Len(arg2)
          /\ \A n \in DOMAIN ret2 :
                ret2[n] = [file_type |-> arg2[n], matrix_combo |-> <<>>]

----------------------------------------------------------------------------
(* C10: get_requested_output_types *)

\* the identifiers of an 'output' value, a single identifier being a list of one
Requested(output) == IF output.islist THEN output.l ELSE <<output.s>>

\* C10: 'none' alone gives the empty format list; 'none' in a request of more
\* than one identifier is a ValueError; an identifier that is no format is a
\* ValueError; any other request is returned as it is.
C10_RequestedOutputTypes ==
    pc = "output_out" =>
        LET req == Requested(arg)
            unknown == \E i \in DOMAIN req :
                          req[i] \notin {"conda", "requirements", "pyproject", "none"}
            combined == Len(req) > 1 /\ "none" \in Range(req)
        IN  /\ req = <<"none">> => ret = Return(<<>>)
            /\ combined => ret.exc = "ValueError"
            /\ unknown => ret.exc = "ValueError"
            /\ (req # <<"none">> /\ ~combined /\ ~unknown) => ret = Return(req)

\* 'none' listed with a format: the request is refused
C10_Witness ==
    /\ pc = "output_out"
    /\ arg = OutputList(<<"none", "requirements">>)
    /\ ret.exc = "ValueError"

----------------------------------------------------------------------------
(* The run, as the claims speak of it *)

\* the run ended in a configuration error
ConfigError == err.exc = "ValueError"

\* the combination resolved last was resolved without error (and accumulated)
JustResolved == pc = "combo" /\ ti > 1 /\ err = NoErr

\* the resolution of the current combination raised
ResolutionFailed == err.exc = "ValueError" /\ err.msg \in {MsgMultiple, MsgNoMatch}

\* the file and the (format, combination) the resolver worked on last
LastFile == parsed_config[fi].v
LastTuple == IF JustResolved THEN tups[ti - 1] ELSE tups[ti]

\* the condition of a sub-rule; empty when it declares none
CondOf(sub) == IF has_key(sub, "matrix") THEN get(sub, "matrix", <<>>) ELSE <<>>

\* the specific rules that apply to a format, over the includes of a file
RulesFor(file_config, file_type) ==
    {rule \in UNION {Range(get(Dependencies, inc, Entry(<<>>, <<>>)).specific)
                        : inc \in Range(get(file_config, "includes", <<>>))}
        : file_type \in Range(rule.output_types)}

\* the conditioned sub-rules of a rule whose condition matches the combination
Matching(rule, combo) ==
    {i \in DOMAIN rule.matrices :
        CondOf(rule.matrices[i]) # <<>> /\ PresentAndEqual(combo, CondOf(rule.matrices[i]))}

\* the conditioned sub-rules of a rule that the code's matcher accepts
Accepted(rule, combo) ==
    {i \in DOMAIN rule.matrices :
        CondOf(rule.matrices[i]) # <<>>
        /\ should_use_specific_entry(combo, CondOf(rule.matrices[i]))}

\* the sub-rules of a rule without a condition: its fallbacks
Fallbacks(rule) == {i \in DOMAIN rule.matrices : CondOf(rule.matrices[i]) = <<>>}

Max(S) == CHOOSE x \in S : \A y \in S : y <= x

----------------------------------------------------------------------------
(* C1 *)

\* C1: once a configuration error has been raised, no destination path has
\* been written in the run and none is written afterwards: nothing was given
\* to write_output, nothing went to the stream, the files are as the run
\* found them.
C1_NoFlushOnConfigError ==
    ConfigError => (written = <<>> /\ stdout = <<>> /\ disk = disk0)

\* an error in the second file, the first one resolved and accumulated
C1_Witness ==
    /\ pc = "error"
    /\ ConfigError
    /\ fi = 2
    /\ results # <<>>

----------------------------------------------------------------------------
(* C2 *)

\* C2: a combination for which some applicable rule has two or more matching
\* conditioned sub-rules is never resolved: the run fails with a ValueError,
\* with or without a fallback in the rule.  And the multiple-matches error is
\* raised only where one rule by itself has two sub-rules counted as matches:
\* matches in different rules are not added up.
C2_AmbiguousRuleFails ==
    /\ JustResolved =>
          \A rule \in RulesFor(LastFile, LastTuple.file_type) :
              Cardinality(Matching(rule, LastTuple.matrix_combo)) < 2
    /\ (pc = "combo" /\ ti <= Len(tups) /\ err = NoErr
            /\ \E rule \in RulesFor(LastFile, tups[ti].file_type) :
                   Cardinality(Matching(rule, tups[ti].matrix_combo)) >= 2)
          => resolve(get(LastFile, "includes", <<>>), tups[ti].file_type,
                     tups[ti].matrix_combo).exc = "ValueError"
    /\ (err.exc = "ValueError" /\ err.msg = MsgMultiple) =>
          \E rule \in RulesFor(LastFile, LastTuple.file_type) :
              Cardinality(Accepted(rule, LastTuple.matrix_combo)) >= 2

\* the error raised for a rule that has a fallback between its two matches
C2_Witness ==
    /\ pc = "error"
    /\ err.msg = MsgMultiple
    /\ \E rule \in RulesFor(LastFile, LastTuple.file_type) :
          /\ Cardinality(Matching(rule, LastTuple.matrix_combo)) >= 2
          /\ \E f \in Fallbacks(rule) :
                /\ \E i \in Matching(rule, LastTuple.matrix_combo) : i < f
                /\ \E i \in Matching(rule, LastTuple.matrix_combo) : i > f

----------------------------------------------------------------------------
(* C3 *)

\* what a rule adds to the dependencies, as C3 has it: the packages of the one
\* matching sub-rule, else those of the fallback (the last one declared)
RuleAdds(rule, combo) ==
    IF Matching(rule, combo) # {}
    THEN packages_of(rule.matrices[CHOOSE i \in Matching(rule, combo) : TRUE])
    ELSE IF Fallbacks(rule) # {} THEN packages_of(rule.matrices[Max(Fallbacks(rule))])
    ELSE <<>>

\* a rule that C3 (or C2) has fail: no match and no fallback, or several matches
RuleFails(rule, combo) ==
    \/ Matching(rule, combo) = {} /\ Fallbacks(rule) = {}
    \/ Cardinality(Matching(rule, combo)) >= 2

RECURSIVE Concat(_)
Concat(ss) == IF ss = <<>> THEN <<>> ELSE Head(ss) \o Concat(Tail(ss))

\* the dependencies list C3 has the resolver build: per include, the packages
\* of the common rules, then what each applicable specific rule adds
ExpectedDependencies(file_config, file_type, combo) ==
    LET includes == get(file_config, "includes", <<>>)
        entry(n) == get(Dependencies, includes[n], Entry(<<>>, <<>>))
        applies(rule) == file_type \in Range(rule.output_types)
        commons(n) == Concat([c \in DOMAIN entry(n).common |->
                        IF applies(entry(n).common[c]) THEN entry(n).common[c].packages
                        ELSE <<>>])
        specifics(n) == Concat([r \in DOMAIN entry(n).specific |->
                        IF applies(entry(n).specific[r])
                        THEN RuleAdds(entry(n).specific[r], combo) ELSE <<>>])
    IN  Concat([n \in DOMAIN includes |-> commons(n) \o specifics(n)])

\* C3: for every applicable rule, exactly one matching conditioned sub-rule
\* adds that sub-rule's packages and not the fallback's, wherever the fallback
\* is listed; no match adds the fallback's packages; no match and no fallback
\* fails with a ValueError.  So a combination is resolved exactly when no rule
\* fails, and then to the list of these packages.
C3_OneMatchElseFallbackElseError ==
    /\ JustResolved =>
          /\ \A rule \in RulesFor(LastFile, LastTuple.file_type) :
                ~RuleFails(rule, LastTuple.matrix_combo)
          /\ cur_dependencies =
                ExpectedDependencies(LastFile, LastTuple.file_type, LastTuple.matrix_combo)
    /\ ResolutionFailed =>
          \E rule \in RulesFor(LastFile, LastTuple.file_type) :
              RuleFails(rule, LastTuple.matrix_combo)

----------------------------------------------------------------------------
(* C4 *)

\* the (file, format, combination) tuples of the configuration
AllTuples ==
    UNION {LET file_config == parsed_config[i].v
               t == get_requested_output_types(get(file_config, "output", OutputList(<<>>)))
               ft == file_tuples(t.val, file_config)
           IN  {[f |-> i, n |-> n, file_type |-> ft[n].file_type,
                 matrix_combo |-> ft[n].matrix_combo] : n \in DOMAIN ft}
           : i \in DOMAIN parsed_config}

PathOf(tup) ==
    output_path(parsed_config[tup.f].k, parsed_config[tup.f].v, tup.file_type,
                tup.matrix_combo)

\* the destination paths computed in the run
ComputedPaths == {PathOf(tup) : tup \in AllTuples}

Count(s, x) == Cardinality({i \in DOMAIN s : s[i] = x})

\* C4: a path is flushed only after the traversal of all files, formats and
\* combinations has ended, and when the run has succeeded every computed path
\* has been flushed exactly once (to its file, or to the stream), also a path
\* that several tuples map to.
C4_FlushOncePerPathAfterTraversal ==
    /\ (written # <<>> \/ stdout # <<>> \/ disk # disk0) =>
          (pc \in {"flush", "done"} /\ fi > Len(parsed_config))
    /\ pc = "done" =>
          /\ Range(written) = ComputedPaths
          /\ \A p \in ComputedPaths : Count(written, p) = 1
          /\ IF to_stdout THEN Len(stdout) = Len(written)
             ELSE \A p \in ComputedPaths : Count([i \in DOMAIN disk |-> disk[i].k], p) = 1

\* a finished run with more tuples than paths, and more than one path
C4_Witness ==
    /\ pc = "done"
    /\ Len(written) >= 2
    /\ Cardinality(AllTuples) > Len(written)
    /\ ~to_stdout

----------------------------------------------------------------------------
(* C5 *)

\* C5: a second run on the unchanged configuration leaves every file as the
\* first run wrote it: no second header, the same package name.
C5_SecondRunIdentical ==
    (pc = "done" /\ run >= 2) => disk = disk0

\* the second run inserts no second header into a document
SecondRunSameHeader ==
    (pc = "done" /\ run >= 2) =>
        \A i \in DOMAIN disk : disk[i].v.lines = get(disk0, disk[i].k, disk[i].v).lines

\* the second run changes nothing but, possibly, the package name
SecondRunSameButName ==
    (pc = "done" /\ run >= 2) =>
        \A i \in DOMAIN disk :
            [disk[i].v EXCEPT !.name = <<>>]
                = [get(disk0, disk[i].k, disk[i].v) EXCEPT !.name = <<>>]

----------------------------------------------------------------------------
(* C6 *)

\* a sequence of the elements of a set
RECURSIVE SeqOf(_)
SeqOf(S) == IF S = {} THEN <<>>
            ELSE LET x == CHOOSE y \in S : TRUE IN <<x>> \o SeqOf(S \ {x})

\* the [table, key] a pyproject file's array goes to
ArrayOf(file_config) ==
    LET extras == get(file_config, "extras", <<>>)
    IN  [table |-> get(extras, "table", ""), key |-> toml_key(extras)]

\* where a tuple's dependencies go within its file: NoArray but for pyproject
NoArray == [table |-> "", key |-> ""]
PlaceOf(tup) ==
    IF tup.file_type = "pyproject" THEN ArrayOf(parsed_config[tup.f].v) ELSE NoArray

\* the dependencies every tuple that lands on (path, place) contributes
Contributions(path, place) ==
    UNION {Range(resolve(get(parsed_config[tup.f].v, "includes", <<>>), tup.file_type,
                         tup.matrix_combo).dependencies)
           : tup \in {u \in AllTuples : PathOf(u) = path /\ PlaceOf(u) = place}}

\* the dependency content of a file, at a place
ContentAt(data, place) ==
    IF data.kind = "toml" THEN get(data.tables, place, <<>>)
    ELSE IF data.yaml # <<>> THEN data.yaml[1].dependencies
    ELSE LET l == SelectSeq(data.lines, LAMBDA x : x.t = "req" /\ x.n # 0)
         IN  [i \in DOMAIN l |-> Plain(l[i].n)]

\* C6: the dependency content of a path that several tuples land on is the
\* deduplicated (unique, sorted) merge of their contributions, whatever the
\* order the tuples were visited in, for each of the three formats.
C6_MergedContentOrderIndependent ==
    pc = "done" =>
        \A tup \in AllTuples :
            PyEq(ContentAt(get(results, PathOf(tup), StrData(<<>>, <<>>)), PlaceOf(tup)),
                 dedupe(SeqOf(Contributions(PathOf(tup), PlaceOf(tup)))))

\* the same of the paths that a single tuple lands on
SinglePathContentDeduped ==
    pc = "done" =>
        \A tup \in AllTuples :
            (\A u \in AllTuples : PathOf(u) = PathOf(tup) => u = tup) =>
                PyEq(ContentAt(get(results, PathOf(tup), StrData(<<>>, <<>>)), PlaceOf(tup)),
                     dedupe(SeqOf(Contributions(PathOf(tup), PlaceOf(tup)))))

----------------------------------------------------------------------------
(* C11 *)

\* the run ended in get_requested_output_types
OutputError == err.exc = "ValueError" /\ err.msg \in {MsgNoneCombined, MsgOutputKey}

\* the specific rules of one include that apply to a format
RulesOf(include, file_type) ==
    {rule \in Range(get(Dependencies, include, Entry(<<>>, <<>>)).specific)
        : file_type \in Range(rule.output_types)}

\* the includes of the file with a rule that takes two sub-rules for the
\* combination, and those with a rule that takes none and has no fallback
AmbiguousIncludes(file_config, tup) ==
    {inc \in Range(get(file_config, "includes", <<>>)) :
        \E rule \in RulesOf(inc, tup.file_type) :
            Cardinality(Accepted(rule, tup.matrix_combo)) >= 2}
UnmatchedIncludes(file_config, tup) ==
    {inc \in Range(get(file_config, "includes", <<>>)) :
        \E rule \in RulesOf(inc, tup.file_type) :
            Accepted(rule, tup.matrix_combo) = {} /\ Fallbacks(rule) = {}}

\* the error for no matching sub-rule holds the include at fault and the
\* combination
NoMatchErrorLocated ==
    (err.exc = "ValueError" /\ err.msg = MsgNoMatch) =>
        /\ err.include # <<>>
        /\ err.include[1] \in UnmatchedIncludes(LastFile, LastTuple)
        /\ err.matrix_combo = <<LastTuple.matrix_combo>>

\* the error for multiple matching sub-rules holds the combination
MultipleErrorNamesCombination ==
    (err.exc = "ValueError" /\ err.msg = MsgMultiple) =>
        err.matrix_combo = <<LastTuple.matrix_combo>>

\* the error for multiple matching sub-rules holds the include at fault
MultipleErrorNamesInclude ==
    (err.exc = "ValueError" /\ err.msg = MsgMultiple) =>
        /\ err.include # <<>>
        /\ err.include[1] \in AmbiguousIncludes(LastFile, LastTuple)

\* the error for a malformed 'output' holds the output value of the file
OutputErrorNamesOutput ==
    OutputError => err.output = <<get(LastFile, "output", OutputList(<<>>))>>

\* C11: every configuration error holds what locates the defect: the error for
\* multiple matching sub-rules and the error for no matching sub-rule each
\* hold the include name and the combination, and the error for a malformed
\* 'output' holds the output value.
C11_ErrorsLocateDefect ==
    /\ NoMatchErrorLocated
    /\ MultipleErrorNamesCombination
    /\ MultipleErrorNamesInclude
    /\ OutputErrorNamesOutput

====
